---- MODULE Spec2Model ----
(***************************************************************************)
(* Model of the video maintenance scripts of my-video-host.                *)
(*                                                                         *)
(* Part 1 (specification Spec): src/cheak.py, class VideoCompressor: the   *)
(* batch loop                                                              *)
(* compress_large_videos and the retry loop compress_video_to_size, with   *)
(* the videos directory, the backup directory, the prober and the          *)
(* two-pass encoder as the environment.                                    *)
(*                                                                         *)
(* Part 2 (specification SpecMeta): class VideoLibraryUpdater of           *)
(* src/update.py and of src/-update_pro.py: generate_video_data with       *)
(* get_video_info, estimate_duration and                                   *)
(* get_video_dimensions_from_filename.                                     *)
(*                                                                         *)
(* Part 3 (specification SpecPar): two compress_video_to_size calls of     *)
(* Part 1 on two files of one videos directory, interleaved.               *)
(*                                                                         *)
(* Part 4 (specification SpecUpd): update_videos_json of src/update.py,    *)
(* run once or twice: the base64 renaming, the titles taken from the       *)
(* previous videos.json, the manifest, run_git_commands with the           *)
(* repository (index, commits, origin/main), the latestCommitSha rewrite   *)
(* and the CDN purge.                                                      *)
(*                                                                         *)
(* Units.  Python computes with floats; the model computes exactly, on     *)
(* integers:                                                               *)
(*   sizes      hundredths of a megabyte   (16 MB   = 1600)                *)
(*   durations  hundredths of a second     (90.50 s = 9050)                *)
(*   bitrates   kbps                                                       *)
(* int(x) of Python truncates toward zero; see Trunc.                      *)
(*                                                                         *)
(* A file name is a record [stem, suffix], the view pathlib.Path gives     *)
(* (Path.stem, Path.suffix); Path.name is stem \o suffix.  A directory is  *)
(* a function from the paths present in it to their contents.              *)
(***************************************************************************)
EXTENDS Integers, Sequences, FiniteSets, TLC

VARIABLES
    \* VideoCompressor.__init__ and the platform it runs on
    osName, ffmpeg_available, check_size_mb, target_size_mb,
    \* the disk
    videos, backup, clock,
    \* compress_large_videos
    bpc, video_files, idx, compressed_count, skipped_count,
    examined, submitted,
    \* compress_video_to_size (the call in progress)
    pc, video_path, duration, attempt, current_bitrate,
    last_compressed_size, result,
    \* what the call has done so far (history, read only by the properties)
    videos0, backup0, prev_bitrate, npass1, npass2, exitPath, probeSeen,
    \* VideoLibraryUpdater.generate_video_data: the script that runs, the
    \* position in it, sorted(video_files), the loop index, the list built
    script, gpc, sorted_files, gi, records,
    \* what the last iteration was given and every estimate made (history)
    probed, estimates,
    \* a second compress_video_to_size call, while it is not the one running
    other,
    \* VideoLibraryUpdater (update.py): cache_version, git_commands and
    \* enable_cache_purge; videos.json in the working tree
    cache_version, git_commands, enable_cache_purge, videos_json,
    \* update_videos_json: the position in it, and its locals
    upc, existing_titles, original_to_base64_map, renamed_files, ri,
    \* run_git_commands: the command index and success_count
    gci, success_count,
    \* the repository: the staged videos.json, the videos.json of every
    \* commit (HEAD is the last), the commit origin/main points to
    git_index, commits, remote_main,
    \* what the runs have done (history, read only by the properties): the
    \* number of the run, the directory when it began, the files it renamed,
    \* the pushes that succeeded in it, the purge requests it sent, and the
    \* names in the directory at the end of every run
    runs, videos_before, renames, pushes, purge_requests, names_after

cfgVars   == <<osName, ffmpeg_available, check_size_mb, target_size_mb>>
diskVars  == <<videos, backup, clock>>
batchVars == <<bpc, video_files, idx, compressed_count, skipped_count,
               examined, submitted>>
callVars  == <<pc, video_path, duration, attempt, current_bitrate,
               last_compressed_size, result>>
histVars  == <<videos0, backup0, prev_bitrate, npass1, npass2, exitPath,
               probeSeen>>
metaVars  == <<script, gpc, sorted_files, gi, records, probed, estimates>>
parVars   == <<other>>
updVars   == <<cache_version, git_commands, enable_cache_purge, videos_json,
               upc, existing_titles, original_to_base64_map, renamed_files,
               ri, gci, success_count, git_index, commits, remote_main, runs,
               videos_before, renames, pushes, purge_requests, names_after>>
vars      == <<cfgVars, diskVars, batchVars, callVars, histVars, metaVars,
               parVars, updVars>>

-----------------------------------------------------------------------------
(* Bounds of the model *)

\* lines of probe output that are enumerated
MaxLines == 2
\* distinct timestamps datetime.now() can return during one run
MaxClock == 2

-----------------------------------------------------------------------------
(* Program constants *)

\* variant: one attempt more
max_attempts_more == 5 + 1
max_attempts == 5
audio_bitrate == 128
MinBitrate == 500
\* --check-size 19.5 and --target-size 16, in hundredths of a megabyte
DefaultCheckSize == 1950
DefaultTargetSize == 1600
LowCheckSize == 1000

None == -1

-----------------------------------------------------------------------------
(* Arithmetic *)

Max(a, b) == IF a >= b THEN a ELSE b

\* int(n / d) for d > 0: truncation toward zero
Trunc(n, d) == IF n >= 0 THEN n \div d ELSE -((-n) \div d)

\* round(x, 1) of a size given in hundredths, as tenths; a tie (x.x5, which
\* a byte count reaches only at .25 and .75) goes to the even tenth
RoundTenth(c) ==
    LET q == c \div 10
        r == c % 10
    IN  IF r < 5 THEN q
        ELSE IF r > 5 THEN q + 1
        ELSE IF q % 2 = 0 THEN q ELSE q + 1

-----------------------------------------------------------------------------
(* Paths and directories *)

Path(s, x) == [stem |-> s, suffix |-> x]
NoPath == Path("", "")
Name(p) == p.stem \o p.suffix

Exists(dir, p) == p \in DOMAIN dir
Unlink(dir, p) == [q \in (DOMAIN dir) \ {p} |-> dir[q]]
WriteFile(dir, p, c) == [q \in (DOMAIN dir) \cup {p} |-> IF q = p THEN c ELSE dir[q]]
EmptyDir == [q \in {} |-> 0]

\* file contents: an original video, an encoder output, a truncated encoder
\* output, an analysis log
Orig(n, sz) == [kind |-> "orig", of |-> n, size |-> sz]
Enc(n, sz)  == [kind |-> "enc", of |-> n, size |-> sz]
Partial(n)  == [kind |-> "partial", of |-> n, size |-> 1]
LogData     == [kind |-> "log", of |-> Name(video_path), size |-> 1]

\* temp_output = video_path.parent / f"{stem}_compressed{suffix}"
temp_output(p) == Path(p.stem \o "_compressed", p.suffix)

\* log_files: ffmpeg2pass-0.log and ffmpeg2pass-0.log.mbtree
log_files == {Path("ffmpeg2pass-0", ".log"), Path("ffmpeg2pass-0.log", ".mbtree")}

\* for log_file in log_files: if log_file.exists(): log_file.unlink()
CleanLogs(dir) == [q \in (DOMAIN dir) \ log_files |-> dir[q]]

\* variant: the temporary output is never removed
DropTemp_skip(dir, p) == dir

\* if temp_output.exists(): temp_output.unlink()
DropTemp(dir, p) == Unlink(dir, temp_output(p))

-----------------------------------------------------------------------------
(* get_video_files *)

video_extensions ==
    <<".mp4", ".MP4", ".mov", ".MOV", ".avi", ".AVI", ".mkv", ".MKV",
      ".webm", ".WEBM">>

\* os.path.normcase on the suffixes that occur
Lower(x) ==
    CASE x = ".MP4" -> ".mp4"
      [] x = ".MOV" -> ".mov"
      [] x = ".AVI" -> ".avi"
      [] x = ".MKV" -> ".mkv"
      [] x = ".WEBM" -> ".webm"
      [] OTHER -> x

\* fnmatch of the pattern "*" + ext: case sensitive under posixpath, and
\* on both sides normcase'd (lower-cased) on Windows
GlobMatch(os, p, ext) ==
    IF os = "nt" THEN Lower(p.suffix) = Lower(ext) ELSE p.suffix = ext

\* the orders in which a directory listing can return the set S
Orderings(S) ==
    {s \in [1..Cardinality(S) -> S] : \A i, j \in 1..Cardinality(S) : i /= j => s[i] /= s[j]}

RECURSIVE GlobAll(_, _, _)
\* video_files.extend(glob.glob(videos_path / ext)) for each ext in turn
GlobAll(os, dir, exts) ==
    IF exts = <<>> THEN {<<>>}
    ELSE {a \o b : a \in Orderings({p \in DOMAIN dir : GlobMatch(os, p, Head(exts))}),
                   b \in GlobAll(os, dir, Tail(exts))}

get_video_files(os, dir) == GlobAll(os, dir, video_extensions)

\* get_file_size, in tenths of a megabyte; 0 when the file does not exist
get_file_size(dir, p) == IF Exists(dir, p) THEN RoundTenth(dir[p].size) ELSE 0

-----------------------------------------------------------------------------
(* The probe: ffmpeg -i, and the parse of its stderr *)

\* A token of a duration string is a number (the seconds in hundredths) or
\* text float() rejects.
Num(v) == [num |-> TRUE, val |-> v]
Bad    == [num |-> FALSE, val |-> 0]

\* A line of stderr: without the word Duration; with the word but without
\* "Duration:" (split(...)[1] raises IndexError); or "Duration: <parts>,".
OtherLine    == [kind |-> "other", parts |-> <<>>]
NoColonLine  == [kind |-> "nocolon", parts |-> <<>>]
DurLine(ps)  == [kind |-> "dur", parts |-> ps]

RECURSIVE ParseDuration_lenient(_)
\* variant: a part float() rejects counts as 0 instead of skipping the line
ParseDuration_lenient(lines) ==
    IF lines = <<>> THEN 0
    ELSE LET l == Head(lines)
             ps == l.parts
         IN  IF l.kind = "dur" /\ Len(ps) >= 3
             THEN ps[1].val * 360000 + ps[2].val * 6000 + ps[3].val
             ELSE ParseDuration_lenient(Tail(lines))

RECURSIVE ParseDuration(_)
\* lines 82-97: the first Duration line with three parsable parts decides
ParseDuration(lines) ==
    IF lines = <<>> THEN 0
    ELSE LET l == Head(lines)
             ps == l.parts
         IN  IF l.kind = "dur" /\ Len(ps) >= 3
                /\ ps[1].num /\ ps[2].num /\ ps[3].num
             THEN ps[1].val * 360000 + ps[2].val * 6000 + ps[3].val
             ELSE ParseDuration(Tail(lines))

\* lines 110-113
NaiveBitrate(T, D) == Trunc(T * 8 * 1024 - audio_bitrate * D, D)
\* variant: the floor of line 113 is missing
InitialBitrate_nofloor(T, D) == NaiveBitrate(T, D)
InitialBitrate(T, D) == Max(NaiveBitrate(T, D), MinBitrate)

\* lines 128-137: the bitrate of attempt number att (after attempt += 1)
Truthy(x) == x /= None /\ x /= 0
AdjustBitrate(att, last, cb, T) ==
    IF att > 1 /\ Truthy(last) THEN Trunc(cb * T * 95, last * 100)
    ELSE IF att > 1 THEN Trunc(cb * 9, 10)
    ELSE cb

-----------------------------------------------------------------------------
(* The inputs that are enumerated *)

\* --target-size: the default 16 MB, and 0.1 MB
TargetSizes == {DefaultTargetSize, 10}

\* the videos directory and the backup directory before the run
a_mp4 == Path("a", ".mp4")
a_compressed_mp4 == Path("a_compressed", ".mp4")
b_MP4 == Path("b", ".MP4")
Dir1(p, sz) == [q \in {p} |-> Orig(Name(p), sz)]
Dir2(p1, sz1, p2, sz2) ==
    [q \in {p1, p2} |-> IF q = p1 THEN Orig(Name(p1), sz1) ELSE Orig(Name(p2), sz2)]
InitialDisks ==
    {\* one video over the threshold
     [v |-> Dir1(a_mp4, 1956), b |-> EmptyDir, c |-> DefaultCheckSize],
     \* the same, and a backup of that name is there already
     [v |-> Dir1(a_mp4, 1956), b |-> Dir1(a_mp4, 3000), c |-> DefaultCheckSize],
     \* two videos over the threshold, of different extensions
     [v |-> Dir2(a_mp4, 1956, b_MP4, 2500), b |-> EmptyDir, c |-> DefaultCheckSize],
     \* 19.54 MB is 19.5 MB to get_file_size: not over the threshold
     [v |-> Dir2(a_mp4, 1954, b_MP4, 2500), b |-> EmptyDir, c |-> DefaultCheckSize],
     \* a video that has the name of the other's temporary output
     [v |-> Dir2(a_mp4, 1956, a_compressed_mp4, 2500), b |-> EmptyDir,
      c |-> DefaultCheckSize],
     \* the operator passes a threshold below the target (main, line 305):
     \* a compressed file is still over the threshold
     [v |-> Dir1(a_mp4, 1956), b |-> Dir1(a_mp4, 3000), c |-> LowCheckSize],
     \* no video at all
     [v |-> EmptyDir, b |-> EmptyDir, c |-> DefaultCheckSize]}

\* what the probe can print: up to MaxLines lines out of these
ProbeLines ==
    {OtherLine, NoColonLine,
     DurLine(<<Bad>>),
     DurLine(<<Num(0), Bad, Num(3050)>>),
     DurLine(<<Num(0), Num(0), Num(0)>>),
     DurLine(<<Num(0), Num(1), Num(3050)>>),
     DurLine(<<Num(0), Num(5), Num(0)>>),
     DurLine(<<Num(1), Num(1), Num(3050)>>)}
ProbeOutputs == UNION {[1..n -> ProbeLines] : n \in 0..MaxLines}

\* the sizes pass 2 can give its output
OutSizes == {0, 10, 1600, 3200, 800000}

\* which analysis logs a pass that did not end normally has left behind
LogOutcomes == {{}, log_files}

-----------------------------------------------------------------------------
(* VideoLibraryUpdater (src/update.py): the metadata of one video.         *)
(* get_file_size is the one of VideoCompressor, line for line.             *)

Min(a, b) == IF a <= b THEN a ELSE b

\* f"{n:02d}"
TwoDigits(n) == IF n < 10 THEN "0" \o ToString(n) ELSE ToString(n)

\* variant: the seconds are rounded half up instead of truncated
FormatDuration_round(hours, minutes, cs) ==
    LET seconds == (cs + 50) \div 100
    IN  IF hours > 0
        THEN ToString(hours) \o ":" \o TwoDigits(minutes) \o ":" \o TwoDigits(seconds)
        ELSE ToString(minutes) \o ":" \o TwoDigits(seconds)

\* lines 428-434; cs is the third part, in hundredths: int(float(...))
FormatDuration(hours, minutes, cs) ==
    LET seconds == Trunc(cs, 100)
    IN  IF hours > 0
        THEN ToString(hours) \o ":" \o TwoDigits(minutes) \o ":" \o TwoDigits(seconds)
        ELSE ToString(minutes) \o ":" \o TwoDigits(seconds)

\* the initial values of lines 419-420; the second is a two-character
\* Chinese word for "unknown", written here in ASCII
ZeroDuration == "0:00"
Unknown == "unknown(zh)"

\* A line of ffmpeg's stderr as get_video_info reads it: d is what it holds
\* about the duration (a line as above), video is whether it contains
\* "Video:" and "x", tokens are the matches of (\d+)x(\d+) in it from left
\* to right.
InfoLine(d, v, toks) == [d |-> d, video |-> v, tokens |-> toks]

Raised == [raised |-> TRUE, duration |-> "", resolution |-> ""]

RECURSIVE ScanInfo(_, _, _)
\* the loop of lines 422-445 over the lines left, duration and resolution
\* being the values so far.  split("Duration:")[1] raises IndexError on a
\* line without the colon, int() and float() raise ValueError on a part
\* that is not a number.
ScanInfo(lines, dur, res) ==
    IF lines = <<>>
    THEN [raised |-> FALSE, duration |-> dur, resolution |-> res]
    ELSE LET l == Head(lines)
             ps == l.d.parts
             three == l.d.kind = "dur" /\ Len(ps) >= 3
         IN  IF l.d.kind = "nocolon" THEN Raised
             ELSE IF three /\ ~(ps[1].num /\ ps[2].num /\ ps[3].num) THEN Raised
             ELSE ScanInfo(Tail(lines),
                           IF three
                           THEN FormatDuration(ps[1].val, ps[2].val, ps[3].val)
                           ELSE dur,
                           IF l.video /\ l.tokens /= <<>>
                           THEN Head(l.tokens)
                           ELSE res)

\* variant: no cap
estimated_seconds_nocap(dir, p) == (4 * get_file_size(dir, p)) \div 10

\* lines 462-464: min(int(size_mb / 0.25), 3600), size_mb in tenths
estimated_seconds(dir, p) ==
    Min((4 * get_file_size(dir, p)) \div 10, 3600)

\* lines 466-471
FormatEstimate(s) ==
    IF s < 60 THEN "0:" \o TwoDigits(s)
    ELSE ToString(s \div 60) \o ":" \o TwoDigits(s % 60)

estimate_duration(dir, p) == FormatEstimate(estimated_seconds(dir, p))

\* filename.lower(), line 551; the stems that occur are in lower case
name_lower(p) == p.stem \o Lower(p.suffix)

\* which of the keywords of lines 554-559 are substrings of a lower-cased
\* name (of the names that occur)
KeywordsIn(n) ==
    CASE n = "movie_1080p_final.mp4" -> {"1080p"}
      [] n = "uhd_demo.mov" -> {"uhd", "hd"}
      [] n = "trip_720p.mp4" -> {"720p"}
      [] OTHER -> {}

\* any(x in name_lower for x in kws)
AnyIn(kws, n) == kws \cap KeywordsIn(n) /= {}

\* variant: the middle band starts at 0
SizeBand_wide(size_mb) ==
    IF size_mb > 1000 THEN "1920x1080"
    ELSE IF size_mb > 0 THEN "1280x720"
    ELSE "854x480"

\* lines 561-568, size_mb in tenths
SizeBand(size_mb) ==
    IF size_mb > 1000 THEN "1920x1080"
    ELSE IF size_mb > 500 THEN "1280x720"
    ELSE "854x480"

\* variant: the size is looked at first, the keywords only for small files
get_video_dimensions_from_filename_size(dir, p) ==
    IF get_file_size(dir, p) > 500 THEN SizeBand(get_file_size(dir, p))
    ELSE IF AnyIn({"1080p", "fullhd"}, name_lower(p)) THEN "1920x1080"
    ELSE "854x480"

\* lines 549-568
get_video_dimensions_from_filename(dir, p) ==
    LET n == name_lower(p)
    IN  IF AnyIn({"4k", "2160p", "uhd"}, n) THEN "3840x2160"
        ELSE IF AnyIn({"2k", "1440p"}, n) THEN "2560x1440"
        ELSE IF AnyIn({"1080p", "fullhd"}, n) THEN "1920x1080"
        ELSE IF AnyIn({"720p", "hd"}, n) THEN "1280x720"
        ELSE SizeBand(get_file_size(dir, p))

\* What the run of ffmpeg -i gives: subprocess.run raises (timeout, no such
\* program), or it returns with these lines on stderr.
ProbeRaised == [raised |-> TRUE, lines |-> <<>>]
ProbeText(ls) == [raised |-> FALSE, lines |-> ls]

\* lines 405-450: (duration, resolution)
get_video_info(dir, p, out) ==
    LET r == IF out.raised THEN Raised
             ELSE ScanInfo(out.lines, ZeroDuration, Unknown)
    IN  IF r.raised
        THEN [duration |-> estimate_duration(dir, p),
              resolution |-> get_video_dimensions_from_filename(dir, p)]
        ELSE [duration |-> r.duration, resolution |-> r.resolution]

\* the same two functions in src/-update_pro.py: lines 253-261
estimated_seconds_pro(dir, p) == Min(get_file_size(dir, p) \div 2, 600)
estimate_duration_pro(dir, p) == FormatEstimate(estimated_seconds_pro(dir, p))

\* What the run of ffprobe gives (-update_pro.py, lines 210-224): ok is
\* "returncode 0, stdout is JSON with format.duration and streams"; secs is
\* that duration in hundredths; stream is the first video stream: "none",
\* or its width and height (0 for a key that is not there).
NoStream == [has |-> FALSE, width |-> 0, height |-> 0]
Stream(w, h) == [has |-> TRUE, width |-> w, height |-> h]
FfprobeFailed == [ok |-> FALSE, secs |-> 0, stream |-> NoStream]
Ffprobe(cs, st) == [ok |-> TRUE, secs |-> cs, stream |-> st]

\* -update_pro.py, lines 195-241: a dict, as a function on its keys
get_video_info_pro(dir, p, out) ==
    IF out.ok
    THEN [duration |-> ToString(Trunc(out.secs, 100) \div 60) \o ":"
                         \o TwoDigits(Trunc(out.secs, 100) % 60),
          codec |-> IF out.stream.has THEN "h264" ELSE "unknown",
          width |-> out.stream.width,
          height |-> out.stream.height]
    ELSE [duration |-> estimate_duration_pro(dir, p),
          codec |-> "unknown",
          width |-> 0,
          height |-> 0]

\* -update_pro.py, lines 277-280: the dict built when ffmpeg is not there
NoFfmpegInfo(dir, p) ==
    [duration |-> estimate_duration_pro(dir, p), codec |-> "unknown"]

\* sorted(video_files): the rank of the names that occur, in string order
NameRank(p) ==
    CASE Name(p) = "6KeG6aKR.mp4" -> 1
      [] Name(p) = "NktlRzZhS1I=.mp4" -> 2
      [] Name(p) = "big.mkv" -> 3
      [] Name(p) = "clip.mp4" -> 4
      [] Name(p) = "emVicmE=.mp4" -> 5
      [] Name(p) = "movie_1080p_final.mp4" -> 6
      [] Name(p) = "trip_720p.MP4" -> 7
      [] Name(p) = "uhd_demo.mov" -> 8
      [] Name(p) = "zebra.mp4" -> 9
      [] Name(p) = "shipin(zh).mp4" -> 10
      [] OTHER -> 0

RECURSIVE Insert(_, _)
Insert(p, s) ==
    IF s = <<>> THEN <<p>>
    ELSE IF NameRank(p) < NameRank(Head(s)) THEN <<p>> \o s
    ELSE <<Head(s)>> \o Insert(p, Tail(s))

RECURSIVE sorted(_)
sorted(s) == IF s = <<>> THEN <<>> ELSE Insert(Head(s), sorted(Tail(s)))

\* generate_video_data has not been called
NotProbed == [by |-> "none", out |-> <<>>]

\* the locals and the history of a call that has not begun
IdleCall ==
    [pc |-> "idle", video_path |-> NoPath, duration |-> 0, attempt |-> 0,
     current_bitrate |-> 0, last_compressed_size |-> None, result |-> FALSE,
     videos0 |-> EmptyDir, backup0 |-> EmptyDir, prev_bitrate |-> None,
     npass1 |-> 0, npass2 |-> 0, exitPath |-> "none", probeSeen |-> "none"]

MetaIdle ==
    /\ script = "none"
    /\ gpc = "idle"
    /\ sorted_files = <<>>
    /\ gi = 1
    /\ records = <<>>
    /\ probed = NotProbed
    /\ estimates = <<>>

\* a videos.json: the list of records, lastUpdated, cacheVersion and
\* latestCommitSha (None when the key is absent)
Manifest(vs, t, cv, sha) ==
    [videos |-> vs, lastUpdated |-> t, cacheVersion |-> cv,
     latestCommitSha |-> sha]

NoManifest == Manifest(<<>>, 0, 0, None)

EmptyMap == [n \in {} |-> ""]

UpdIdle ==
    /\ cache_version = 0
    /\ git_commands = <<>>
    /\ enable_cache_purge = FALSE
    /\ videos_json = NoManifest
    /\ upc = "idle"
    /\ existing_titles = EmptyMap
    /\ original_to_base64_map = <<>>
    /\ renamed_files = <<>>
    /\ ri = 1
    /\ gci = 1
    /\ success_count = 0
    /\ git_index = NoManifest
    /\ commits = <<>>
    /\ remote_main = 0
    /\ runs = 0
    /\ videos_before = EmptyDir
    /\ renames = {}
    /\ pushes = 0
    /\ purge_requests = 0
    /\ names_after = <<>>

-----------------------------------------------------------------------------
(* update.py: base64 file names and titles.  The stem written "shipin(zh)"
   stands for a stem of two Chinese characters; its UTF-8 bytes encode to
   "6KeG6aKR". *)

\* base64.b64encode(stem.encode('utf-8')).decode('utf-8').replace('/', '-')
encode_filename_to_base64(p) ==
    CASE p.stem = "zebra" -> "emVicmE="
      [] p.stem = "shipin(zh)" -> "6KeG6aKR"
      [] p.stem = "6KeG6aKR" -> "NktlRzZhS1I="
      [] p.stem = "emVicmE=" -> "ZW1WaWNtRT0="
      [] p.stem = "NktlRzZhS1I=" -> "Tmt0bFJ6WmhTMUk9"
      [] p.stem = "clip" -> "Y2xpcA=="
      [] p.stem = "big" -> "Ymln"
      [] p.stem = "movie_1080p_final" -> "bW92aWVfMTA4MHBfZmluYWw="
      [] p.stem = "trip_720p" -> "dHJpcF83MjBw"
      [] p.stem = "uhd_demo" -> "dWhkX2RlbW8="
      [] OTHER -> "b64(" \o p.stem \o ")"

\* all(c in base64_chars for c in name_without_ext)
Base64Chars(stem) ==
    stem \in {"zebra", "emVicmE=", "6KeG6aKR", "NktlRzZhS1I=", "clip", "big",
              "ZW1WaWNtRT0=", "Tmt0bFJ6WmhTMUk9"}

Decoded(text, ascii) == [ok |-> TRUE, text |-> text, ascii |-> ascii]
DecodeError == [ok |-> FALSE, text |-> "", ascii |-> FALSE]

\* base64.b64decode(padded stem).decode('utf-8'): the text, and whether all
\* of it is ASCII; an error when the bytes are not base64 or not UTF-8
b64decode(stem) ==
    CASE stem = "emVicmE=" -> Decoded("zebra", TRUE)
      [] stem = "6KeG6aKR" -> Decoded("shipin(zh)", FALSE)
      [] stem = "NktlRzZhS1I=" -> Decoded("6KeG6aKR", TRUE)
      [] stem = "ZW1WaWNtRT0=" -> Decoded("emVicmE=", TRUE)
      [] stem = "Tmt0bFJ6WmhTMUk9" -> Decoded("NktlRzZhS1I=", TRUE)
      [] stem = "big" -> Decoded("n(", TRUE)
      [] OTHER -> DecodeError

is_base64_filename(p) ==
    /\ Base64Chars(p.stem)
    /\ b64decode(p.stem).ok
    /\ b64decode(p.stem).text /= ""
    /\ b64decode(p.stem).ascii

\* the decoded text, or "" for None
decode_base64_filename(p) ==
    IF b64decode(p.stem).ok THEN b64decode(p.stem).text ELSE ""

\* the keyword table first, and else name.title() of the name with '_' and
\* '-' replaced by spaces
generate_friendly_title(name) ==
    CASE name = "zebra" -> "Zebra"
      [] name = "shipin(zh)" -> "shipin(zh)"
      [] name = "6KeG6aKR" -> "6Keg6Akr"
      [] name = "emVicmE=" -> "Emvicme="
      [] name = "NktlRzZhS1I=" -> "Nktlrzzhs1I="
      [] name = "n(" -> "N("
      [] name = "big" -> "Big"
      [] name = "clip" -> "Clip"
      [] name = "movie_1080p_final" -> "Movie 1080P Final"
      [] name = "trip_720p" -> "Trip 720P"
      [] name = "uhd_demo" -> "demo(zh)"
      [] OTHER -> "title(" \o name \o ")"

\* original_to_base64_map: the items of the dict in insertion order
MapItem(orig, b64) == [orig |-> orig, base64 |-> b64]

RECURSIVE MapPut(_, _, _)
\* original_to_base64_map[orig] = b64
MapPut(m, orig, b64) ==
    IF m = <<>> THEN <<MapItem(orig, b64)>>
    ELSE IF Head(m).orig = orig THEN <<MapItem(orig, b64)>> \o Tail(m)
    ELSE <<Head(m)>> \o MapPut(Tail(m), orig, b64)

RECURSIVE MappedTitle(_, _, _)
\* lines 494-497: the title of the first original that was renamed to
\* video_filename and has a previous title; "" when there is none
MappedTitle(video_filename, titles, m) ==
    IF m = <<>> THEN ""
    ELSE IF Head(m).base64 = video_filename /\ Head(m).orig \in DOMAIN titles
         THEN titles[Head(m).orig]
         ELSE MappedTitle(video_filename, titles, Tail(m))

\* lines 489-497
PreviousTitle(video_filename, titles, m) ==
    IF video_filename \in DOMAIN titles /\ titles[video_filename] /= ""
    THEN titles[video_filename]
    ELSE MappedTitle(video_filename, titles, m)

\* lines 486-506
Title(p, titles, m) ==
    IF PreviousTitle(Name(p), titles, m) /= ""
    THEN PreviousTitle(Name(p), titles, m)
    ELSE IF decode_base64_filename(p) /= ""
         THEN generate_friendly_title(decode_base64_filename(p))
         ELSE generate_friendly_title(p.stem)

-----------------------------------------------------------------------------
(* State after VideoCompressor.__init__, before compress_large_videos *)

Init ==
    /\ osName \in {"posix", "nt"}
    /\ ffmpeg_available \in BOOLEAN
    /\ target_size_mb \in TargetSizes
    /\ \E d \in InitialDisks :
          videos = d.v /\ backup = d.b /\ check_size_mb = d.c
    /\ clock = 1
    /\ bpc = "start"
    /\ video_files = <<>>
    /\ idx = 1
    /\ compressed_count = 0
    /\ skipped_count = 0
    /\ examined = EmptyDir
    /\ submitted = EmptyDir
    /\ pc = "idle"
    /\ video_path = NoPath
    /\ duration = 0
    /\ attempt = 0
    /\ current_bitrate = 0
    /\ last_compressed_size = None
    /\ result = FALSE
    /\ videos0 = EmptyDir
    /\ backup0 = EmptyDir
    /\ prev_bitrate = None
    /\ npass1 = 0
    /\ npass2 = 0
    /\ exitPath = "none"
    /\ probeSeen = "none"
    /\ MetaIdle
    /\ other = IdleCall
    /\ UpdIdle

-----------------------------------------------------------------------------
(* compress_large_videos *)

\* lines 260-277: the guards, the enumeration, the counters
StartBatch ==
    /\ UNCHANGED <<metaVars, parVars, updVars>>
    /\ bpc = "start"
    /\ IF ~ffmpeg_available
       THEN /\ bpc' = "done"
            /\ UNCHANGED <<video_files, examined, submitted>>
       ELSE \E fs \in get_video_files(osName, videos) :
                /\ video_files' = fs
                /\ examined' = [p \in {fs[i] : i \in 1..Len(fs)} |-> 0]
                /\ submitted' = [p \in {fs[i] : i \in 1..Len(fs)} |-> 0]
                /\ bpc' = IF fs = <<>> THEN "done" ELSE "loop"
    /\ idx' = 1
    /\ compressed_count' = 0
    /\ skipped_count' = 0
    /\ UNCHANGED <<cfgVars, diskVars, callVars, histVars>>

\* lines 279-285 and 289-290: one iteration up to the call
Examine ==
    /\ UNCHANGED <<metaVars, parVars, updVars>>
    /\ bpc = "loop"
    /\ pc = "idle"
    /\ idx <= Len(video_files)
    /\ LET f == video_files[idx]
       IN  /\ examined' = [examined EXCEPT ![f] = @ + 1]
           /\ IF get_file_size(videos, f) * 10 > check_size_mb
              THEN /\ submitted' = [submitted EXCEPT ![f] = @ + 1]
                   /\ pc' = "probe"
                   /\ video_path' = f
                   /\ videos0' = videos
                   /\ backup0' = backup
                   /\ prev_bitrate' = None
                   /\ npass1' = 0
                   /\ npass2' = 0
                   /\ exitPath' = "none"
                   /\ probeSeen' = "none"
                   /\ UNCHANGED idx
              ELSE /\ idx' = idx + 1
                   /\ UNCHANGED <<submitted, pc, video_path, histVars>>
    /\ UNCHANGED <<cfgVars, diskVars, bpc, video_files, compressed_count,
                   skipped_count, duration, attempt, current_bitrate,
                   last_compressed_size, result>>

\* lines 285-288: the call has returned
AfterCall ==
    /\ UNCHANGED <<metaVars, parVars, updVars>>
    /\ bpc = "loop"
    /\ pc = "returned"
    /\ IF result
       THEN compressed_count' = compressed_count + 1 /\ UNCHANGED skipped_count
       ELSE skipped_count' = skipped_count + 1 /\ UNCHANGED compressed_count
    /\ idx' = idx + 1
    /\ pc' = "idle"
    /\ video_path' = NoPath
    /\ result' = FALSE
    /\ videos0' = EmptyDir
    /\ backup0' = EmptyDir
    /\ prev_bitrate' = None
    /\ npass1' = 0
    /\ npass2' = 0
    /\ exitPath' = "none"
    /\ probeSeen' = "none"
    /\ UNCHANGED <<cfgVars, diskVars, bpc, video_files, examined, submitted,
                   duration, attempt, current_bitrate, last_compressed_size>>

\* lines 292-295: the loop is over
FinishBatch ==
    /\ UNCHANGED <<metaVars, parVars, updVars>>
    /\ bpc = "loop"
    /\ pc = "idle"
    /\ idx > Len(video_files)
    /\ bpc' = "done"
    /\ UNCHANGED <<cfgVars, diskVars, video_files, idx, compressed_count,
                   skipped_count, examined, submitted, callVars, histVars>>

-----------------------------------------------------------------------------
(* compress_video_to_size *)

\* return <res>, reached on the exit path <how>; the frame's locals are gone
Return(res, how) ==
    /\ result' = res
    /\ exitPath' = how
    /\ pc' = "returned"
    /\ duration' = 0
    /\ attempt' = 0
    /\ current_bitrate' = 0
    /\ last_compressed_size' = None

\* the call goes on at <to>
Goto(to) ==
    /\ pc' = to
    /\ UNCHANGED <<result, exitPath>>

\* datetime.now().strftime("%Y%m%d_%H%M%S") at clock value t
Stamp(t) == "20260101_12000" \o ToString(t)

\* lines 210-215: where the original goes, read at clock value t
BackupTarget(bdir, p, t) ==
    IF Exists(bdir, p) THEN Path(p.stem \o "_" \o Stamp(t), p.suffix) ELSE p

\* What the probe gave, told from its output alone (recorded for the
\* properties): it raised; no line holds a duration of three numbers; the
\* first such line gives a duration <= 0; or it gives a duration > 0.
Parsable(l) ==
    l.kind = "dur" /\ Len(l.parts) >= 3 /\ \A i \in 1..3 : l.parts[i].num
Seconds(l) == l.parts[1].val * 360000 + l.parts[2].val * 6000 + l.parts[3].val
ProbeClass(raised, out) ==
    IF raised THEN "error"
    ELSE IF \A i \in 1..Len(out) : ~Parsable(out[i]) THEN "unparsable"
    ELSE LET first == CHOOSE i \in 1..Len(out) :
                          Parsable(out[i]) /\ \A j \in 1..(i - 1) : ~Parsable(out[j])
         IN  IF Seconds(out[first]) <= 0 THEN "nonpositive" ELSE "positive"

\* lines 70-122: the existence check, the probe, the initial bitrate
Probe ==
    /\ UNCHANGED <<metaVars, parVars, updVars>>
    /\ pc = "probe"
    /\ \E raised \in BOOLEAN, out \in ProbeOutputs :
          /\ IF ~Exists(videos, video_path)
             THEN Return(FALSE, "missing")
             ELSE IF raised
             THEN Return(FALSE, "probe_error")
             ELSE IF ParseDuration(out) <= 0
             THEN Return(FALSE, "no_duration")
             ELSE /\ duration' = ParseDuration(out)
                  /\ current_bitrate' = InitialBitrate(target_size_mb, ParseDuration(out))
                  /\ attempt' = 0
                  /\ last_compressed_size' = None
                  /\ Goto("loop")
          /\ probeSeen' = IF Exists(videos, video_path) THEN ProbeClass(raised, out) ELSE "none"
    /\ UNCHANGED <<cfgVars, diskVars, batchVars, video_path,
                   videos0, backup0, prev_bitrate, npass1, npass2>>

\* lines 124-150: the loop test, attempt += 1, the bitrate of this attempt,
\* the removal of earlier analysis logs
AttemptStart ==
    /\ UNCHANGED <<metaVars, parVars, updVars>>
    /\ pc = "loop"
    /\ attempt < max_attempts
    /\ UNCHANGED probeSeen
    /\ attempt' = attempt + 1
    /\ current_bitrate' = AdjustBitrate(attempt + 1, last_compressed_size,
                                        current_bitrate, target_size_mb)
    /\ prev_bitrate' = IF attempt = 0 THEN None ELSE current_bitrate
    /\ videos' = CleanLogs(videos)
    /\ Goto("pass1")
    /\ UNCHANGED <<cfgVars, backup, clock, batchVars, video_path, duration,
                   last_compressed_size, videos0, backup0, npass1, npass2>>

\* lines 252-256: the attempts are used up
Exhausted ==
    /\ UNCHANGED <<metaVars, parVars, updVars>>
    /\ pc = "loop"
    /\ attempt >= max_attempts
    /\ UNCHANGED probeSeen
    /\ videos' = DropTemp(videos, video_path)
    /\ Return(FALSE, "exhausted")
    /\ UNCHANGED <<cfgVars, backup, clock, batchVars, video_path, videos0,
                   backup0, prev_bitrate, npass1, npass2>>

\* the analysis logs pass 1 writes beside the video
WithLogs(dir, L) == [q \in (DOMAIN dir) \cup L |-> IF q \in L THEN LogData ELSE dir[q]]

\* lines 154-175 and the handlers 241-250: pass 1.  It exits 0 having
\* written both logs, or exits non-zero, or runs into the timeout, or cannot
\* be run at all (subprocess.run raises).
Pass1 ==
    /\ UNCHANGED <<metaVars, parVars, updVars>>
    /\ pc = "pass1"
    /\ UNCHANGED probeSeen
    /\ npass1' = npass1 + 1
    /\ \E how \in {"ok", "pass1_failed", "pass1_timeout", "pass1_error"}, L \in LogOutcomes :
          IF how = "ok"
          THEN /\ L = log_files
               /\ videos' = WithLogs(videos, log_files)
               /\ Goto("pass2")
               /\ UNCHANGED <<duration, attempt, current_bitrate, last_compressed_size>>
          ELSE /\ (how = "pass1_error") => (L = {})
               /\ videos' = DropTemp(WithLogs(videos, L), video_path)
               /\ Return(FALSE, how)
    /\ UNCHANGED <<cfgVars, backup, clock, batchVars, video_path, videos0,
                   backup0, prev_bitrate, npass2>>

\* what pass 2 leaves at the output path before the function looks: the
\* complete output; nothing; or, when it did not end normally, either
\* nothing or a truncated output.  When it cannot be run the path is as before.
AfterPass2(dir, p, how, sz, cut) ==
    CASE how = "ok" -> WriteFile(dir, temp_output(p), Enc(Name(p), sz))
      [] how = "pass2_no_output" -> Unlink(dir, temp_output(p))
      [] how \in {"pass2_failed", "pass2_timeout"} ->
            IF cut THEN WriteFile(dir, temp_output(p), Partial(Name(p)))
            ELSE Unlink(dir, temp_output(p))
      [] OTHER -> dir

\* lines 178-208 and 228-250: pass 2, the removal of the logs, the size test.
\* Pass 2 exits 0 with an output of some size, exits 0 without an output,
\* exits non-zero, runs into the timeout, or cannot be run at all.
Pass2 ==
    /\ UNCHANGED <<metaVars, parVars, updVars>>
    /\ pc = "pass2"
    /\ UNCHANGED probeSeen
    /\ npass2' = npass2 + 1
    /\ \E how \in {"ok", "pass2_no_output", "pass2_failed", "pass2_timeout", "pass2_error"},
          sz \in OutSizes, cut \in BOOLEAN :
          LET tmp == temp_output(video_path)
              left == AfterPass2(videos, video_path, how, sz, cut)
          IN  IF how \in {"pass2_timeout", "pass2_error"}
              \* subprocess.run raised: lines 241-250
              THEN /\ videos' = DropTemp(left, video_path)
                   /\ Return(FALSE, how)
              \* lines 197-202, then the test of line 204
              ELSE IF how = "ok" /\ Exists(left, tmp)
              THEN IF left[tmp].size <= target_size_mb
                   THEN /\ videos' = CleanLogs(left)
                        /\ Goto("move1")
                        /\ UNCHANGED <<duration, attempt, current_bitrate,
                                       last_compressed_size>>
                   ELSE /\ videos' = DropTemp(CleanLogs(left), video_path)
                        /\ last_compressed_size' = left[tmp].size
                        /\ Goto("loop")
                        /\ UNCHANGED <<duration, attempt, current_bitrate>>
              ELSE /\ videos' = DropTemp(CleanLogs(left), video_path)
                   /\ Return(FALSE, how)
    /\ UNCHANGED <<cfgVars, backup, clock, batchVars, video_path, videos0,
                   backup0, prev_bitrate, npass1>>

\* shutil.move(src, dst) between two directories, and inside one
MoveOut(from, p) == Unlink(from, p)
MoveIn(from, p, to, q) == WriteFile(to, q, from[p])
\* variant: a copy, the source stays
MoveWithin_copy(dir, p, q) == WriteFile(dir, q, dir[p])
MoveWithin(dir, p, q) == WriteFile(Unlink(dir, p), q, dir[p])

\* lines 210-218 and 223-227: the original goes to the backup directory,
\* or shutil.move raises and nothing has moved
MoveOriginal ==
    /\ UNCHANGED <<metaVars, parVars, updVars>>
    /\ pc = "move1"
    /\ UNCHANGED probeSeen
    /\ \E ok \in BOOLEAN, t \in clock..MaxClock :
          /\ (~ok \/ ~Exists(backup, video_path)) => (t = clock)
          /\ IF ok
             THEN /\ backup' = MoveIn(videos, video_path, backup,
                                      BackupTarget(backup, video_path, t))
                  /\ videos' = MoveOut(videos, video_path)
                  /\ clock' = t
                  /\ Goto("move2")
                  /\ UNCHANGED <<duration, attempt, current_bitrate, last_compressed_size>>
             ELSE /\ videos' = DropTemp(videos, video_path)
                  /\ Return(FALSE, "move1_failed")
                  /\ UNCHANGED <<backup, clock>>
    /\ UNCHANGED <<cfgVars, batchVars, video_path, videos0, backup0,
                   prev_bitrate, npass1, npass2>>

\* lines 220-227: the output takes the original's place, or shutil.move
\* raises and nothing has moved
MoveTemp ==
    /\ UNCHANGED <<metaVars, parVars, updVars>>
    /\ pc = "move2"
    /\ UNCHANGED probeSeen
    /\ \E ok \in BOOLEAN :
          IF ok
          THEN /\ videos' = MoveWithin(videos, temp_output(video_path), video_path)
               /\ Return(TRUE, "success")
          ELSE /\ videos' = DropTemp(videos, video_path)
               /\ Return(FALSE, "move2_failed")
    /\ UNCHANGED <<cfgVars, backup, clock, batchVars, video_path, videos0,
                   backup0, prev_bitrate, npass1, npass2>>

-----------------------------------------------------------------------------

Next ==
    \/ StartBatch
    \/ Examine
    \/ AfterCall
    \/ FinishBatch
    \/ Probe
    \/ AttemptStart
    \/ Exhausted
    \/ Pass1
    \/ Pass2
    \/ MoveOriginal
    \/ MoveTemp

Spec == Init /\ [][Next]_vars

-----------------------------------------------------------------------------
(* generate_video_data of src/update.py and of src/-update_pro.py *)

c_mp4   == Path("clip", ".mp4")
m_mp4   == Path("movie_1080p_final", ".mp4")
u_mov   == Path("uhd_demo", ".mov")
t_MP4   == Path("trip_720p", ".MP4")
g_mkv   == Path("big", ".mkv")

\* the videos directories the updater is run on (sizes in hundredths of MB)
MetaDisks ==
    {Dir2(m_mp4, 3000, c_mp4, 12000),
     Dir2(m_mp4, 12000, c_mp4, 3000),
     Dir2(m_mp4, 7500, g_mkv, 90000),
     Dir2(u_mov, 7500, g_mkv, 95000),
     Dir2(t_MP4, 1490, c_mp4, 7500),
     Dir1(c_mp4, 3000),
     EmptyDir}

\* the platforms it is run on: on Windows the glob lists every file twice
MetaScenarios ==
    {[os |-> "posix", v |-> d] : d \in MetaDisks}
    \cup {[os |-> "nt", v |-> Dir1(c_mp4, 3000)]}

\* lines ffmpeg -i can print, and its outputs of up to MaxLines lines
InfoLines ==
    {InfoLine(d, FALSE, <<>>) :
        d \in {OtherLine, NoColonLine,
               DurLine(<<Num(1), Num(3050)>>),
               DurLine(<<Num(0), Bad, Num(3050)>>),
               DurLine(<<Num(0), Num(1), Num(3050)>>),
               DurLine(<<Num(1), Num(1), Num(100)>>),
               DurLine(<<Num(0), Num(0), Num(4500)>>)}}
    \cup {InfoLine(OtherLine, TRUE, t) :
             t \in {<<>>, <<"1920x1080">>, <<"0x31637661", "1280x720">>}}
InfoOutputs ==
    {ProbeRaised} \cup
    {ProbeText(ls) : ls \in UNION {[1..n -> InfoLines] : n \in 0..MaxLines}}

\* what ffprobe can answer
FfprobeOutputs ==
    {FfprobeFailed,
     Ffprobe(9050, Stream(1920, 1080)),
     Ffprobe(366100, NoStream),
     Ffprobe(4500, Stream(0, 0))}

InitMeta ==
    /\ \E m \in MetaScenarios : osName = m.os /\ videos = m.v
    /\ ffmpeg_available \in BOOLEAN
    /\ check_size_mb = DefaultCheckSize
    /\ target_size_mb = DefaultTargetSize
    /\ backup = EmptyDir
    /\ clock = 1
    /\ bpc = "start"
    /\ video_files = <<>>
    /\ idx = 1
    /\ compressed_count = 0
    /\ skipped_count = 0
    /\ examined = EmptyDir
    /\ submitted = EmptyDir
    /\ pc = "idle"
    /\ video_path = NoPath
    /\ duration = 0
    /\ attempt = 0
    /\ current_bitrate = 0
    /\ last_compressed_size = None
    /\ result = FALSE
    /\ videos0 = EmptyDir
    /\ backup0 = EmptyDir
    /\ prev_bitrate = None
    /\ npass1 = 0
    /\ npass2 = 0
    /\ exitPath = "none"
    /\ probeSeen = "none"
    /\ script \in {"update.py", "-update_pro.py"}
    /\ gpc = "start"
    /\ sorted_files = <<>>
    /\ gi = 1
    /\ records = <<>>
    /\ probed = NotProbed
    /\ estimates = <<>>
    /\ other = IdleCall
    /\ UpdIdle

cheakVars == <<cfgVars, diskVars, batchVars, callVars, histVars, parVars,
               updVars>>

Estimate(p, s) == [file |-> p, size |-> get_file_size(videos, p), seconds |-> s]

\* the call: for i, video_file in enumerate(sorted(video_files), 1)
GenStart ==
    /\ gpc = "start"
    /\ \E fl \in get_video_files(osName, videos) : sorted_files' = sorted(fl)
    /\ gi' = 1
    /\ records' = <<>>
    /\ gpc' = "loop"
    /\ UNCHANGED <<cheakVars, script, probed, estimates>>

\* the title of -update_pro.py is generate_friendly_title(name_without_ext)
VideoData(i, p, dur, res) ==
    [id |-> i,
     title |-> IF script = "update.py"
               THEN Title(p, existing_titles, original_to_base64_map)
               ELSE generate_friendly_title(p.stem),
     filename |-> Name(p), duration |-> dur, resolution |-> res,
     size |-> get_file_size(videos, p)]

\* update.py, lines 482-545: one iteration
GenRecord ==
    /\ gpc = "loop"
    /\ script = "update.py"
    /\ gi <= Len(sorted_files)
    /\ LET p == sorted_files[gi]
       IN  IF ffmpeg_available
           THEN \E out \in InfoOutputs :
                   LET info == get_video_info(videos, p, out)
                       fell == out.raised
                               \/ ScanInfo(out.lines, ZeroDuration, Unknown).raised
                   IN  /\ records' = Append(records,
                              VideoData(gi, p, info.duration, info.resolution))
                       /\ probed' = [by |-> "ffmpeg", out |-> out]
                       /\ estimates' =
                              IF fell
                              THEN Append(estimates,
                                          Estimate(p, estimated_seconds(videos, p)))
                              ELSE estimates
           ELSE /\ records' = Append(records,
                       VideoData(gi, p, estimate_duration(videos, p),
                                 get_video_dimensions_from_filename(videos, p)))
                /\ probed' = [by |-> "estimate", out |-> <<>>]
                /\ estimates' = Append(estimates,
                                       Estimate(p, estimated_seconds(videos, p)))
    /\ gi' = gi + 1
    /\ UNCHANGED <<cheakVars, script, gpc, sorted_files>>

\* -update_pro.py, lines 268-318: one iteration; video_info['width'] of
\* line 313 raises KeyError when the dict has no such key
GenRecordPro ==
    /\ gpc = "loop"
    /\ script = "-update_pro.py"
    /\ gi <= Len(sorted_files)
    /\ LET p == sorted_files[gi]
       IN  \E out \in IF ffmpeg_available THEN FfprobeOutputs ELSE {FfprobeFailed} :
              LET video_info == IF ffmpeg_available
                                THEN get_video_info_pro(videos, p, out)
                                ELSE NoFfmpegInfo(videos, p)
              IN  /\ probed' = IF ffmpeg_available
                               THEN [by |-> "ffprobe", out |-> out]
                               ELSE [by |-> "estimate", out |-> <<>>]
                  /\ estimates' =
                         IF ~ffmpeg_available \/ ~out.ok
                         THEN Append(estimates,
                                     Estimate(p, estimated_seconds_pro(videos, p)))
                         ELSE estimates
                  /\ IF "width" \in DOMAIN video_info
                     THEN /\ records' = Append(records,
                                 VideoData(gi, p, video_info.duration,
                                     IF video_info.width /= 0
                                     THEN ToString(video_info.width) \o "x"
                                          \o ToString(video_info.height)
                                     ELSE "unknown"))
                          /\ gi' = gi + 1
                          /\ gpc' = gpc
                     ELSE /\ gpc' = "raised"
                          /\ UNCHANGED <<records, gi>>
    /\ UNCHANGED <<cheakVars, script, sorted_files>>

\* return videos
GenReturn ==
    /\ gpc = "loop"
    /\ gi > Len(sorted_files)
    /\ gpc' = "done"
    /\ UNCHANGED <<cheakVars, script, sorted_files, gi, records, probed, estimates>>

NextMeta ==
    \/ GenStart
    \/ GenRecord
    \/ GenRecordPro
    \/ GenReturn

SpecMeta == InitMeta /\ [][NextMeta]_vars

-----------------------------------------------------------------------------
(* Two calls of compress_video_to_size, interleaved (spec section 5: the   *)
(* pipeline run in parallel across files).  The actions of a call are the  *)
(* ones above; they act on the call that is running, and Switch hands the  *)
(* processor to the other call between any two of them.                    *)

\* the locals and the history of the call that is running
Running ==
    [pc |-> pc, video_path |-> video_path, duration |-> duration,
     attempt |-> attempt, current_bitrate |-> current_bitrate,
     last_compressed_size |-> last_compressed_size, result |-> result,
     videos0 |-> videos0, backup0 |-> backup0, prev_bitrate |-> prev_bitrate,
     npass1 |-> npass1, npass2 |-> npass2, exitPath |-> exitPath,
     probeSeen |-> probeSeen]

\* the call c goes on
Resume(c) ==
    /\ pc' = c.pc
    /\ video_path' = c.video_path
    /\ duration' = c.duration
    /\ attempt' = c.attempt
    /\ current_bitrate' = c.current_bitrate
    /\ last_compressed_size' = c.last_compressed_size
    /\ result' = c.result
    /\ videos0' = c.videos0
    /\ backup0' = c.backup0
    /\ prev_bitrate' = c.prev_bitrate
    /\ npass1' = c.npass1
    /\ npass2' = c.npass2
    /\ exitPath' = c.exitPath
    /\ probeSeen' = c.probeSeen

\* a call of compress_video_to_size(p) at its first line
Called(p) ==
    [IdleCall EXCEPT !.pc = "probe", !.video_path = p,
                     !.videos0 = videos, !.backup0 = backup]

InitPar ==
    /\ osName = "posix"
    /\ ffmpeg_available = TRUE
    /\ check_size_mb = DefaultCheckSize
    /\ target_size_mb = DefaultTargetSize
    /\ videos = Dir2(a_mp4, 1956, b_MP4, 2500)
    /\ backup = EmptyDir
    /\ clock = 1
    /\ bpc = "start"
    /\ video_files = <<>>
    /\ idx = 1
    /\ compressed_count = 0
    /\ skipped_count = 0
    /\ examined = EmptyDir
    /\ submitted = EmptyDir
    /\ pc = "idle"
    /\ video_path = NoPath
    /\ duration = 0
    /\ attempt = 0
    /\ current_bitrate = 0
    /\ last_compressed_size = None
    /\ result = FALSE
    /\ videos0 = EmptyDir
    /\ backup0 = EmptyDir
    /\ prev_bitrate = None
    /\ npass1 = 0
    /\ npass2 = 0
    /\ exitPath = "none"
    /\ probeSeen = "none"
    /\ MetaIdle
    /\ other = IdleCall
    /\ UpdIdle

\* two workers call compress_video_to_size, one for each of two files
ParStart ==
    /\ pc = "idle"
    /\ other.pc = "idle"
    /\ \E p, q \in DOMAIN videos :
          /\ p /= q
          /\ Resume(Called(p))
          /\ other' = Called(q)
    /\ UNCHANGED <<cfgVars, diskVars, batchVars, metaVars, updVars>>

\* the running call is suspended and the other one goes on
Switch ==
    /\ pc \notin {"idle"}
    /\ other.pc \notin {"idle", "returned"}
    /\ Resume(other)
    /\ other' = Running
    /\ UNCHANGED <<cfgVars, diskVars, batchVars, metaVars, updVars>>

NextPar ==
    \/ ParStart
    \/ Switch
    \/ Probe
    \/ AttemptStart
    \/ Exhausted
    \/ Pass1
    \/ Pass2
    \/ MoveOriginal
    \/ MoveTemp

SpecPar == InitPar /\ [][NextPar]_vars

-----------------------------------------------------------------------------
(* Properties of compress_video_to_size and compress_large_videos *)

Returned == pc = "returned"
Tmp == temp_output(video_path)

\* C1: whenever compress_video_to_size returns True, the original's content
\* is in the backup directory unmodified, the original path holds the new
\* encoding of it, of a size <= the target, and the temporary output is gone.
C1_SuccessSwapsOriginalAndOutput ==
    (Returned /\ result) =>
        /\ \E q \in DOMAIN backup : backup[q] = videos0[video_path]
        /\ Exists(videos, video_path)
        /\ videos[video_path].kind = "enc"
        /\ videos[video_path].of = Name(video_path)
        /\ videos[video_path].size <= target_size_mb
        /\ ~Exists(videos, Tmp)

\* C1 witness: a successful return, with a backup of that name there before
C1_Witness ==
    Returned /\ result /\ Exists(backup0, video_path)

\* C2: whenever the function returns False because the attempts are used up
\* or because an encoder pass failed, timed out or could not be run, the
\* original path holds what it held before the call, the temporary output
\* does not exist and the backup directory has gained nothing.
C2_EncodeFailureLeavesOriginal ==
    (Returned /\ exitPath \in {"exhausted", "pass1_failed", "pass1_timeout",
                               "pass1_error", "pass2_failed", "pass2_timeout",
                               "pass2_error"}) =>
        /\ ~result
        /\ Exists(videos, video_path)
        /\ videos[video_path] = videos0[video_path]
        /\ ~Exists(videos, Tmp)
        /\ backup = backup0

\* C2 witness: the attempts were used up, each having written an output
C2_Witness ==
    Returned /\ exitPath = "exhausted" /\ npass2 = 5

\* C3 (as claimed): when one of the two moves fails, the function returns
\* False, the original content is still at the original path and the backup
\* directory is as before.
C3_MoveFailureRestores ==
    (Returned /\ exitPath \in {"move1_failed", "move2_failed"}) =>
        /\ ~result
        /\ Exists(videos, video_path)
        /\ videos[video_path] = videos0[video_path]
        /\ backup = backup0

\* C4 (as claimed): the bitrate of an attempt that follows an overshooting
\* attempt is strictly lower than the bitrate of that attempt.
C4_BitrateStrictlyDecreases ==
    (pc \in {"pass1", "pass2"} /\ attempt > 1) => current_bitrate < prev_bitrate

\* C5: a call runs at most 5 attempts, each one pass 1 and at most one
\* pass 2, whatever the encoder returns; when it ends because every attempt
\* overshot, it has run exactly 5 of each and returns False.
C5_AtMostFiveAttempts ==
    /\ attempt <= 5
    /\ npass1 <= 5
    /\ npass2 <= npass1
    /\ (pc \in {"pass1", "pass2"}) => (npass1 \in {attempt - 1, attempt})
    /\ (Returned /\ exitPath = "exhausted") =>
           (npass1 = 5 /\ npass2 = 5 /\ ~result)
    /\ (pc = "loop" /\ npass2 = 5) => (attempt >= max_attempts)

\* C5 witness: the return after the fifth overshoot
C5_Witness ==
    Returned /\ exitPath = "exhausted" /\ npass1 = 5 /\ ~result

\* C6: for every target size and every duration > 0, the initial video
\* bitrate is at least 500 kbps, also where T*8*1024/D - 128 is lower or
\* negative.
C6_InitialBitrateFloor ==
    (pc = "loop" /\ attempt = 0) =>
        /\ duration > 0
        /\ current_bitrate >= 500
        /\ current_bitrate >= NaiveBitrate(target_size_mb, duration)

\* C6 witness: an initial bitrate whose unfloored value is negative
C6_Witness ==
    /\ pc = "loop"
    /\ attempt = 0
    /\ NaiveBitrate(target_size_mb, duration) < 0
    /\ current_bitrate = 500

\* C7 (as claimed): when pass 2 exits 0 and its output is missing or of
\* length 0, the attempt is a failure: the function does not go on to move
\* the original, and returns False with the original in place.
C7_EmptyOutputIsFailure ==
    /\ (pc \in {"move1", "move2"} /\ Exists(videos, Tmp)) => videos[Tmp].size > 0
    /\ (Returned /\ result) => videos[video_path].size > 0
    /\ (Returned /\ exitPath = "pass2_no_output") =>
           (~result /\ videos[video_path] = videos0[video_path] /\ backup = backup0)

\* C8 (as claimed): on every return reached after an encoder pass has
\* started, neither the temporary output nor an analysis log is left in the
\* videos directory.
C8_NoTransientFilesLeft ==
    (Returned /\ npass1 > 0) =>
        (~Exists(videos, Tmp) /\ log_files \cap DOMAIN videos = {})

\* C9: when the probe raises, prints no parsable duration, or gives a
\* duration <= 0, the function returns False at once: no encoder pass has run
\* and both directories are as they were.
C9_NoDurationNoEncode ==
    (probeSeen \in {"error", "unparsable", "nonpositive"}) =>
        /\ Returned
        /\ ~result
        /\ npass1 = 0
        /\ npass2 = 0
        /\ videos = videos0
        /\ backup = backup0

\* C9 witness: the call has returned on a probe output without a parsable
\* duration, in a directory that holds a file of the temporary output's name
C9_Witness ==
    Returned /\ probeSeen = "unparsable" /\ Exists(videos, Tmp)

\* C10 (as claimed): when the batch is over, every enumerated file has been
\* examined exactly once, none has been submitted more than once, and
\* compressed_count + skipped_count is the number of files that were over
\* check_size_mb.
C10_BatchCountsEveryFileOnce ==
    (bpc = "done" /\ ffmpeg_available) =>
        /\ \A f \in DOMAIN examined : examined[f] = 1 /\ submitted[f] <= 1
        /\ compressed_count + skipped_count =
               Cardinality({f \in DOMAIN submitted : submitted[f] > 0})

InCall == pc \in {"probe", "loop", "pass1", "pass2", "move1", "move2"}

\* C11: the move of an original into the backup directory never overwrites
\* or removes a file that is already there: every step leaves every backup
\* file in place with its content.
C11_BackupNeverOverwritten ==
    [][\A q \in DOMAIN backup :
          q \in DOMAIN backup' /\ backup'[q] = backup[q]]_vars

\* C20: at every instant of a call, and when it has returned, the original
\* path holds a file, and that file is either the complete original or a
\* complete encoder output.
C20_OriginalPathNeverEmpty ==
    (InCall \/ Returned) =>
        /\ Exists(videos, video_path)
        /\ \/ videos[video_path] = videos0[video_path]
           \/ videos[video_path].kind = "enc"

-----------------------------------------------------------------------------
(* Properties of the metadata functions (specification SpecMeta) *)

\* the record and the file of the last iteration of generate_video_data
LastRecord == records[Len(records)]
LastFile == sorted_files[gi - 1]

\* the last iteration ran get_video_info of update.py and its parse of the
\* probe output ended without an exception
Parsed ==
    /\ probed.by = "ffmpeg"
    /\ ~probed.out.raised
    /\ ~ScanInfo(probed.out.lines, ZeroDuration, Unknown).raised

\* the last iteration of update.py took estimate_duration and
\* get_video_dimensions_from_filename
FellBack ==
    /\ script = "update.py"
    /\ probed.by \in {"ffmpeg", "estimate"}
    /\ ~Parsed

RECURSIVE LastMarker(_)
\* the parts of the last Duration marker with hours, minutes and seconds
LastMarker(lines) ==
    IF lines = <<>> THEN <<>>
    ELSE LET l == lines[Len(lines)]
         IN  IF l.d.kind = "dur" /\ Len(l.d.parts) >= 3 THEN l.d.parts
             ELSE LastMarker(SubSeq(lines, 1, Len(lines) - 1))

\* C12: a duration marker hours:minutes:seconds[.fraction] is rendered as
\* M:SS when hours is 0 and as H:MM:SS otherwise, the seconds truncated:
\* 0:01:30.50 gives "1:30", 1:01:01 gives "1:01:01", 0:00:45 gives "0:45".
C12_DurationFormat ==
    (Parsed /\ LastMarker(probed.out.lines) /= <<>>) =>
        LET m == LastMarker(probed.out.lines)
            d == LastRecord.duration
            ss == TwoDigits(m[3].val \div 100)
        IN  /\ (m[1].val = 0) => d = ToString(m[2].val) \o ":" \o ss
            /\ (m[1].val > 0) =>
                   d = ToString(m[1].val) \o ":" \o TwoDigits(m[2].val) \o ":" \o ss
            /\ (m = <<Num(0), Num(1), Num(3050)>>) => d = "1:30"
            /\ (m = <<Num(1), Num(1), Num(100)>>) => d = "1:01:01"
            /\ (m = <<Num(0), Num(0), Num(4500)>>) => d = "0:45"

C12_Witness ==
    /\ Parsed
    /\ LastMarker(probed.out.lines) = <<Num(0), Num(1), Num(3050)>>
    /\ LastRecord.duration = "1:30"

\* C13 as the specification states it: without a keyword in the name, a
\* 120 MB file gets "1920x1080" and a 30 MB file gets "1280x720".
C13_SizeBandAsStated ==
    (FellBack /\ KeywordsIn(name_lower(LastFile)) = {}) =>
        /\ (LastRecord.size = 1200) => LastRecord.resolution = "1920x1080"
        /\ (LastRecord.size = 300) => LastRecord.resolution = "1280x720"

\* C13 (amended): without a keyword in the name, a 120 MB file gets
\* "1920x1080", a 30 MB file gets "854x480", and "1280x720" is what a file
\* over 50 MB and up to 100 MB gets.
C13_SizeBand ==
    (FellBack /\ KeywordsIn(name_lower(LastFile)) = {}) =>
        /\ (LastRecord.size = 1200) => LastRecord.resolution = "1920x1080"
        /\ (LastRecord.size = 300) => LastRecord.resolution = "854x480"
        /\ (LastRecord.size > 500 /\ LastRecord.size <= 1000) =>
               LastRecord.resolution = "1280x720"

C13_Witness ==
    /\ FellBack
    /\ LastFile = c_mp4
    /\ LastRecord.size = 300
    /\ LastRecord.resolution = "854x480"

\* C14: a name that contains "1080p" and no keyword of a higher resolution
\* gets "1920x1080" whatever the size of the file is (30, 75 and 120 MB
\* fall into the three size bands), and any name with a keyword gets the
\* resolution of that keyword.
C14_KeywordBeforeSize ==
    FellBack =>
        LET k == KeywordsIn(name_lower(LastFile))
        IN  /\ ("1080p" \in k /\ k \cap {"4k", "2160p", "uhd", "2k", "1440p"} = {}) =>
                   LastRecord.resolution = "1920x1080"
            /\ (k /= {}) =>
                   LastRecord.resolution \in
                       {"3840x2160", "2560x1440", "1920x1080", "1280x720"}
            /\ (k = {"720p"}) => LastRecord.resolution = "1280x720"
            /\ ("uhd" \in k) => LastRecord.resolution = "3840x2160"

C14_Witness ==
    /\ FellBack
    /\ LastFile = m_mp4
    /\ LastRecord.size = 750
    /\ LastRecord.resolution = "1920x1080"

\* C15: the seconds estimate_duration of update.py computes never exceed
\* 3600, and of two files the larger one never gets the smaller estimate.
C15_EstimateMonotoneCapped ==
    (script = "update.py") =>
        \A i, j \in DOMAIN estimates :
            /\ estimates[i].seconds <= 3600
            /\ (estimates[i].size <= estimates[j].size) =>
                   estimates[i].seconds <= estimates[j].seconds

C15_Witness ==
    /\ script = "update.py"
    /\ \E i, j \in DOMAIN estimates :
          /\ estimates[i].size < estimates[j].size
          /\ estimates[i].seconds = 300
          /\ estimates[j].size = 9500
          /\ estimates[j].seconds = 3600

\* a Duration marker whose three parts are numbers
GoodMarker(l) ==
    /\ l.d.kind = "dur"
    /\ Len(l.d.parts) >= 3
    /\ \A k \in 1..3 : l.d.parts[k].num

\* a line with a Duration marker that the parse cannot read
Malformed(l) == l.d.kind = "nocolon" \/ (l.d.kind = "dur" /\ ~GoodMarker(l))

RECURSIVE DurationAlone(_)
\* the duration the Duration markers determine by themselves: that of the
\* last well-formed one, the sentinel when there is none
DurationAlone(lines) ==
    IF lines = <<>> THEN ZeroDuration
    ELSE LET l == lines[Len(lines)]
         IN  IF GoodMarker(l)
             THEN FormatDuration(l.d.parts[1].val, l.d.parts[2].val, l.d.parts[3].val)
             ELSE DurationAlone(SubSeq(lines, 1, Len(lines) - 1))

RECURSIVE ResolutionAlone(_)
\* the resolution the stream lines determine by themselves
ResolutionAlone(lines) ==
    IF lines = <<>> THEN Unknown
    ELSE LET l == lines[Len(lines)]
         IN  IF l.video /\ l.tokens /= <<>> THEN Head(l.tokens)
             ELSE ResolutionAlone(SubSeq(lines, 1, Len(lines) - 1))

\* C16: get_video_info determines duration and resolution independently:
\* whatever the Duration markers are (absent, malformed), the resolution is
\* the one of the stream line, and whatever the stream lines are, the
\* duration is the one of the well-formed marker; a field without its
\* marker stays at its sentinel.
C16_FieldsIndependent ==
    (probed.by = "ffmpeg" /\ ~probed.out.raised) =>
        /\ LastRecord.resolution = ResolutionAlone(probed.out.lines)
        /\ LastRecord.duration = DurationAlone(probed.out.lines)

\* the probe ran and printed nothing get_video_info can use
NothingParsed ==
    /\ probed.by = "ffmpeg"
    /\ ~probed.out.raised
    /\ \A k \in DOMAIN probed.out.lines :
          LET l == probed.out.lines[k]
          IN  ~GoodMarker(l) /\ ~(l.video /\ l.tokens /= <<>>)

\* C17: a file whose probe output is empty or unparsable gets what a file
\* gets when the tool is not there: the duration estimated from the size
\* and the resolution guessed from the name and the size.
C17_ProbeFailureFallsBack ==
    NothingParsed =>
        /\ LastRecord.duration = estimate_duration(videos, LastFile)
        /\ LastRecord.resolution =
               get_video_dimensions_from_filename(videos, LastFile)

\* C18: without ffmpeg, generate_video_data of either script does not
\* raise, and when it has returned there is one record for each entry of
\* the list it was given, in order, with the estimated duration.
C18_NoToolNeverRaises ==
    (~ffmpeg_available) =>
        /\ gpc /= "raised"
        /\ (gpc = "done") =>
              /\ Len(records) = Len(sorted_files)
              /\ \A i \in DOMAIN records :
                    /\ records[i].filename = Name(sorted_files[i])
                    /\ records[i].duration =
                           IF script = "update.py"
                           THEN estimate_duration(videos, sorted_files[i])
                           ELSE estimate_duration_pro(videos, sorted_files[i])

-----------------------------------------------------------------------------
(* Properties of two interleaved calls (specification SpecPar) *)

\* the analysis logs in the videos directory are those pass 1 has written
\* for the video p
OwnLogs(p) ==
    \A l \in log_files : Exists(videos, l) /\ videos[l].of = Name(p)

\* C19: two interleaved calls on two files of one directory do not touch
\* each other's files: a call that is about to run pass 2 finds the
\* analysis log its own pass 1 has written.
C19_CallsShareNoFile ==
    /\ (pc = "pass2") => OwnLogs(video_path)
    /\ (other.pc = "pass2") => OwnLogs(other.video_path)

-----------------------------------------------------------------------------
(* Further properties of compress_video_to_size (specification Spec) *)

\* C26: the bitrate every pass of the encoder is given, the adjusted ones
\* included, is at least the minimum of 500 kbps.
C26_EveryBitrateAtLeastMinimum ==
    (pc \in {"pass1", "pass2"}) => current_bitrate >= MinBitrate

\* C30: during a call and after it, every file that was in the videos
\* directory when the call began, other than the video itself and the
\* analysis logs, is still there with its content.
C30_OtherFilesUntouched ==
    (InCall \/ Returned) =>
        \A q \in DOMAIN videos0 :
            (q /= video_path /\ q \notin log_files) =>
                /\ Exists(videos, q)
                /\ videos[q] = videos0[q]

-----------------------------------------------------------------------------
(* Further properties of the metadata functions (specification SpecMeta) *)

RECURSIVE DimensionToken(_)
\* the <width>x<height> token of the last stream line that has one: of the
\* digit-x-digit texts of such a line the dimension is the last one (the
\* codec tag, "avc1 / 0x31637661", stands before it)
DimensionToken(lines) ==
    IF lines = <<>> THEN Unknown
    ELSE LET l == lines[Len(lines)]
         IN  IF l.video /\ l.tokens /= <<>> THEN l.tokens[Len(l.tokens)]
             ELSE DimensionToken(SubSeq(lines, 1, Len(lines) - 1))

\* C23: when the parse of the probe output ends normally, the resolution
\* is the dimension token of the stream line, also when other
\* digit-x-digit text stands before it in the line.
C23_ResolutionIsDimensionToken ==
    Parsed => LastRecord.resolution = DimensionToken(probed.out.lines)

\* C24: the string estimate_duration of update.py returns is M:SS for an
\* estimate under one hour and H:MM:SS for one of an hour.
C24_EstimateFormat ==
    (FellBack /\ estimates /= <<>>) =>
        LET sec == estimates[Len(estimates)].seconds
        IN  /\ (sec < 3600) =>
                   LastRecord.duration =
                       ToString(sec \div 60) \o ":" \o TwoDigits(sec % 60)
            /\ (sec >= 3600) =>
                   LastRecord.duration =
                       ToString(sec \div 3600) \o ":"
                          \o TwoDigits((sec % 3600) \div 60) \o ":"
                          \o TwoDigits(sec % 60)


-----------------------------------------------------------------------------
(* update.py: update_videos_json, run_git_commands and the repository *)

\* runs of update.py, one after the other
MaxRuns == 2

z_mp4  == Path("zebra", ".mp4")
zb_mp4 == Path("emVicmE=", ".mp4")
s_mp4  == Path("shipin(zh)", ".mp4")

\* a record of the previous videos.json, with a title its owner gave it
PrevRecord(i, p) ==
    [id |-> i, title |-> "My " \o Name(p), filename |-> Name(p),
     duration |-> ZeroDuration, resolution |-> Unknown, size |-> 0]

PrevManifest(fl) ==
    Manifest([i \in 1..Len(fl) |-> PrevRecord(i, fl[i])], 0, 0, None)

\* the directory and the previous videos.json: a name to encode; a name that
\* is not ASCII; a name beside its own base64 name, with titles for both, for
\* the first, for none; two names to encode; no video
UpdDisks ==
    {[v |-> Dir1(z_mp4, 3000), m |-> PrevManifest(<<z_mp4>>)],
     [v |-> Dir1(z_mp4, 3000), m |-> NoManifest],
     [v |-> Dir1(s_mp4, 3000), m |-> PrevManifest(<<s_mp4>>)],
     [v |-> Dir2(z_mp4, 3000, zb_mp4, 4000), m |-> PrevManifest(<<zb_mp4, z_mp4>>)],
     [v |-> Dir2(z_mp4, 3000, zb_mp4, 4000), m |-> PrevManifest(<<z_mp4>>)],
     [v |-> Dir2(z_mp4, 3000, zb_mp4, 4000), m |-> NoManifest],
     [v |-> Dir2(z_mp4, 3000, s_mp4, 4000), m |-> PrevManifest(<<s_mp4, z_mp4>>)],
     [v |-> EmptyDir, m |-> NoManifest]}

\* Windows with the one-file directory only
UpdScenarios ==
    {[os |-> "posix", v |-> d.v, m |-> d.m] : d \in UpdDisks}
    \cup {[os |-> "nt", v |-> Dir1(z_mp4, 3000), m |-> PrevManifest(<<z_mp4>>)]}

\* setup_git_commands: git add ., git commit -m ..., git push ... main
GitCommands == <<"add", "commit", "push">>

\* main: --no-git empties git_commands, --no-cache-purge clears the flag;
\* ffmpeg is not installed on the machine; the previous videos.json is the
\* one of HEAD, which origin/main points to
InitUpd ==
    /\ \E u \in UpdScenarios :
          /\ osName = u.os
          /\ videos = u.v
          /\ videos_before = u.v
          /\ videos_json = u.m
          /\ git_index = u.m
          /\ commits = <<u.m>>
    /\ ffmpeg_available = FALSE
    /\ check_size_mb = DefaultCheckSize
    /\ target_size_mb = DefaultTargetSize
    /\ backup = EmptyDir
    /\ clock = 1
    /\ bpc = "start"
    /\ video_files = <<>>
    /\ idx = 1
    /\ compressed_count = 0
    /\ skipped_count = 0
    /\ examined = EmptyDir
    /\ submitted = EmptyDir
    /\ pc = "idle"
    /\ video_path = NoPath
    /\ duration = 0
    /\ attempt = 0
    /\ current_bitrate = 0
    /\ last_compressed_size = None
    /\ result = FALSE
    /\ videos0 = EmptyDir
    /\ backup0 = EmptyDir
    /\ prev_bitrate = None
    /\ npass1 = 0
    /\ npass2 = 0
    /\ exitPath = "none"
    /\ probeSeen = "none"
    /\ script = "update.py"
    /\ gpc = "idle"
    /\ sorted_files = <<>>
    /\ gi = 1
    /\ records = <<>>
    /\ probed = NotProbed
    /\ estimates = <<>>
    /\ other = IdleCall
    /\ cache_version = 1
    /\ git_commands \in {GitCommands, <<>>}
    /\ enable_cache_purge \in BOOLEAN
    /\ upc = "start"
    /\ existing_titles = EmptyMap
    /\ original_to_base64_map = <<>>
    /\ renamed_files = <<>>
    /\ ri = 1
    /\ gci = 1
    /\ success_count = 0
    /\ remote_main = 1
    /\ runs = 1
    /\ renames = {}
    /\ pushes = 0
    /\ purge_requests = 0
    /\ names_after = <<>>

\* what update_videos_json and the repository leave alone
idleVars == <<cfgVars, backup, idx, compressed_count, skipped_count, bpc,
              examined, submitted, callVars, histVars, parVars, script,
              probed, estimates, git_commands, enable_cache_purge>>
gitVars  == <<git_index, commits, remote_main>>
runVars  == <<runs, videos_before, names_after>>

\* lines 700-715: existing_titles[filename] = title for every record with
\* both; a later record of the same filename replaces an earlier one
ReadTitles(vs) ==
    LET titled == {i \in DOMAIN vs : vs[i].filename /= "" /\ vs[i].title /= ""}
        last(n) == CHOOSE i \in titled :
                      /\ vs[i].filename = n
                      /\ \A j \in titled : vs[j].filename = n => j <= i
    IN  [n \in {vs[i].filename : i \in titled} |-> vs[last(n)].title]

\* lines 686-720: the listing, the previous titles, the empty map and list
UpdStart ==
    /\ upc = "start"
    /\ \E fl \in get_video_files(osName, videos) :
          /\ video_files' = fl
          /\ upc' = IF fl = <<>> THEN "return_false" ELSE "rename"
    /\ existing_titles' = ReadTitles(videos_json.videos)
    /\ original_to_base64_map' = <<>>
    /\ renamed_files' = <<>>
    /\ ri' = 1
    /\ UNCHANGED <<idleVars, gitVars, runVars, videos, clock, cache_version,
                   videos_json, sorted_files, gi, records, gpc, gci,
                   success_count, renames, pushes, purge_requests>>

\* new_path of rename_video_to_base64
new_path(p) == Path(encode_filename_to_base64(p), p.suffix)

\* original_path.rename(new_path)
Rename(dir, p, q) == WriteFile(Unlink(dir, p), q, dir[p])

\* lines 722-740, one iteration, with rename_video_to_base64 (293-320): None
\* when the path does not exist, the new name without a rename when the new
\* path exists, the new name after the rename, the old name when it fails
RenameStep ==
    /\ upc = "rename"
    /\ ri <= Len(video_files)
    /\ LET p == video_files[ri]
           q == new_path(p)
       IN  IF is_base64_filename(p) \/ ~Exists(videos, p)
           THEN /\ renamed_files' = Append(renamed_files, p)
                /\ UNCHANGED <<videos, original_to_base64_map, renames>>
           ELSE IF Exists(videos, q) /\ q /= p
           THEN /\ renamed_files' = Append(renamed_files, q)
                /\ original_to_base64_map' =
                       MapPut(original_to_base64_map, Name(p), Name(q))
                /\ UNCHANGED <<videos, renames>>
           ELSE \E ok \in BOOLEAN :
                   IF ok
                   THEN /\ videos' = Rename(videos, p, q)
                        /\ renamed_files' = Append(renamed_files, q)
                        /\ original_to_base64_map' =
                               MapPut(original_to_base64_map, Name(p), Name(q))
                        /\ renames' = renames \cup {<<runs, p>>}
                   ELSE /\ renamed_files' = Append(renamed_files, p)
                        /\ UNCHANGED <<videos, original_to_base64_map, renames>>
    /\ ri' = ri + 1
    /\ UNCHANGED <<idleVars, gitVars, runVars, clock, cache_version,
                   videos_json, video_files, existing_titles, upc,
                   sorted_files, gi, records, gpc, gci, success_count,
                   pushes, purge_requests>>

\* line 747: videos = self.generate_video_data(renamed_files, ...)
UpdGenerate ==
    /\ upc = "rename"
    /\ ri > Len(video_files)
    /\ sorted_files' = sorted(renamed_files)
    /\ gi' = 1
    /\ records' = <<>>
    /\ gpc' = "loop"
    /\ upc' = "generate"
    /\ UNCHANGED <<idleVars, gitVars, runVars, videos, clock, cache_version,
                   videos_json, video_files, existing_titles,
                   original_to_base64_map, renamed_files, ri, gci,
                   success_count, renames, pushes, purge_requests>>

\* lines 753-785: updated_data, written to videos.json
WriteJson ==
    /\ upc = "generate"
    /\ gpc = "done"
    /\ \E t \in clock..MaxClock :
          /\ clock' = t
          /\ videos_json' = Manifest(records, t, cache_version, None)
    /\ gpc' = "idle"
    /\ gci' = 1
    /\ success_count' = 0
    /\ upc' = "git"
    /\ UNCHANGED <<idleVars, gitVars, runVars, videos, cache_version,
                   video_files, existing_titles, original_to_base64_map,
                   renamed_files, ri, sorted_files, gi, records, renames,
                   pushes, purge_requests>>

\* run_git_commands, lines 608-649, one command: it returns 0 and has had
\* its effect, or it fails (return code, timeout, exception) and has not
GitCommand ==
    /\ upc = "git"
    /\ gci <= Len(git_commands)
    /\ \E ok \in BOOLEAN :
          IF ok
          THEN /\ success_count' = success_count + 1
               /\ git_index' = IF git_commands[gci] = "add"
                               THEN videos_json ELSE git_index
               /\ commits' = IF git_commands[gci] = "commit"
                             THEN Append(commits, git_index) ELSE commits
               /\ remote_main' = IF git_commands[gci] = "push"
                                 THEN Len(commits) ELSE remote_main
               /\ pushes' = IF git_commands[gci] = "push"
                            THEN pushes + 1 ELSE pushes
          ELSE UNCHANGED <<success_count, gitVars, pushes>>
    /\ gci' = gci + 1
    /\ UNCHANGED <<idleVars, runVars, videos, clock, cache_version,
                   videos_json, video_files, existing_titles,
                   original_to_base64_map, renamed_files, ri, sorted_files,
                   gi, records, gpc, upc, renames, purge_requests>>

\* line 652 and line 800: git_success = (success_count == total_commands)
git_success == success_count = Len(git_commands)

GitReturn ==
    /\ upc = "git"
    /\ gci > Len(git_commands)
    /\ upc' = IF git_success THEN "sha" ELSE "return_true"
    /\ UNCHANGED <<idleVars, gitVars, runVars, videos, clock, cache_version,
                   videos_json, video_files, existing_titles,
                   original_to_base64_map, renamed_files, ri, sorted_files,
                   gi, records, gpc, gci, success_count, renames, pushes,
                   purge_requests>>

\* updated_data["latestCommitSha"] = latest_commit_sha
WithSha(data, sha) == [data EXCEPT !.latestCommitSha = sha]

\* lines 802-814: git rev-parse HEAD, and the rewrite of videos.json when it
\* gave a SHA
GetSha ==
    /\ upc = "sha"
    /\ \E ok \in BOOLEAN :
          videos_json' = IF ok THEN WithSha(videos_json, Len(commits))
                         ELSE videos_json
    /\ upc' = "purge"
    /\ UNCHANGED <<idleVars, gitVars, runVars, videos, clock, cache_version,
                   video_files, existing_titles, original_to_base64_map,
                   renamed_files, ri, sorted_files, gi, records, gpc, gci,
                   success_count, renames, pushes, purge_requests>>

\* lines 816-819 and purge_cdn_cache: the request to purge.jsdelivr.net
Purge ==
    /\ upc = "purge"
    /\ purge_requests' = IF enable_cache_purge
                         THEN purge_requests + 1 ELSE purge_requests
    /\ upc' = "return_true"
    /\ UNCHANGED <<idleVars, gitVars, runVars, videos, clock, cache_version,
                   videos_json, video_files, existing_titles,
                   original_to_base64_map, renamed_files, ri, sorted_files,
                   gi, records, gpc, gci, success_count, renames, pushes>>

\* return True (line 843), return False (line 693)
UpdReturn ==
    /\ upc \in {"return_true", "return_false"}
    /\ upc' = IF upc = "return_true" THEN "done" ELSE "failed"
    /\ names_after' = Append(names_after, DOMAIN videos)
    /\ UNCHANGED <<idleVars, gitVars, videos, clock, cache_version,
                   videos_json, video_files, existing_titles,
                   original_to_base64_map, renamed_files, ri, sorted_files,
                   gi, records, gpc, gci, success_count, renames, pushes,
                   purge_requests, runs, videos_before>>

\* update.py is run again with the same flags: __init__ takes cache_version
\* from HEAD (get_cache_version)
Rerun ==
    /\ upc \in {"done", "failed"}
    /\ runs < MaxRuns
    /\ runs' = runs + 1
    /\ cache_version' = Len(commits)
    /\ videos_before' = videos
    /\ upc' = "start"
    /\ pushes' = 0
    /\ purge_requests' = 0
    /\ UNCHANGED <<idleVars, gitVars, videos, clock, videos_json,
                   video_files, existing_titles, original_to_base64_map,
                   renamed_files, ri, sorted_files, gi, records, gpc, gci,
                   success_count, renames, names_after>>

NextUpd ==
    \/ UpdStart
    \/ RenameStep
    \/ UpdGenerate
    \/ GenRecord
    \/ GenReturn
    \/ WriteJson
    \/ GitCommand
    \/ GitReturn
    \/ GetSha
    \/ Purge
    \/ UpdReturn
    \/ Rerun

SpecUpd == InitUpd /\ [][NextUpd]_vars

-----------------------------------------------------------------------------
(* Claims on update_videos_json *)

\* update_videos_json has returned, run n of it
Completed(n) == upc \in {"done", "failed"} /\ runs = n

\* C27: base64 renaming is idempotent across runs. Every name that
\* rename_video_to_base64 gives a file, ASCII original or not, is recognised
\* by is_base64_filename; no file renamed by one run is renamed again by a
\* later run; and once the first run has renamed every file it had to, the
\* second run renames nothing and leaves the set of file names as it was.
C27_RenameIdempotent ==
    /\ \A r \in renames :
          /\ is_base64_filename(new_path(r[2]))
          /\ \A r2 \in renames : r2[1] > r[1] => r2[2] /= new_path(r[2])
    /\ (/\ Completed(2)
        /\ \A q \in names_after[1] : is_base64_filename(q) \/ <<1, q>> \in renames)
       => /\ \A r \in renames : r[1] = 1
          /\ names_after[2] = names_after[1]

\* the file names of the records of a manifest
Filenames(m) == {m.videos[i].filename : i \in DOMAIN m.videos}

\* the manifest of this run has been written
Written == upc \in {"git", "sha", "purge", "return_true", "done"}

\* C28: the manifest written by update_videos_json has exactly one record per
\* video file present in the videos directory after the rename step: the
\* record file names are pairwise distinct, every listed file name exists on
\* disk, and every video file on disk is listed, also when a base64 target
\* name already exists and the rename is skipped.
C28_OneRecordPerFile ==
    Written =>
        /\ \A i, j \in DOMAIN videos_json.videos :
              i /= j => videos_json.videos[i].filename
                        /= videos_json.videos[j].filename
        /\ Filenames(videos_json) = {Name(q) : q \in DOMAIN videos}

\* the name a file of the directory at the start of the run has now
NameNow(p) == IF <<runs, p>> \in renames THEN Name(new_path(p)) ELSE Name(p)

\* the originals renamed to the file name n in this run
OriginalsOf(n) == {p \in DOMAIN videos_before :
                      <<runs, p>> \in renames /\ Name(new_path(p)) = n}

\* C25: if the previous videos.json holds a non-empty title for a video's
\* file name, the record of that video in the regenerated manifest carries
\* the same title, also when the file is renamed to its base64 name during
\* this run; and a record has a generated title only when there is no previous
\* title for its file, under the present name or the original one.
C25_TitlesKept ==
    Written =>
        /\ \A p \in DOMAIN videos_before :
              Name(p) \in DOMAIN existing_titles =>
                 \E i \in DOMAIN videos_json.videos :
                    /\ videos_json.videos[i].filename = NameNow(p)
                    /\ videos_json.videos[i].title = existing_titles[Name(p)]
        /\ \A i \in DOMAIN videos_json.videos :
              LET r == videos_json.videos[i]
              IN  r.title \notin {existing_titles[n] : n \in DOMAIN existing_titles}
                  => /\ r.filename \notin DOMAIN existing_titles
                     /\ \A p \in OriginalsOf(r.filename) :
                           Name(p) \notin DOMAIN existing_titles

\* C29: a CDN purge request is issued only after a git push has been
\* executed and has succeeded in the same run; with --no-git (the empty
\* command list), or after any git command has failed, no purge request is
\* sent.
C29_PurgeOnlyAfterPush ==
    purge_requests > 0 =>
        /\ pushes > 0
        /\ git_commands /= <<>>
        /\ success_count = Len(git_commands)

\* update_videos_json has returned True and run_git_commands had reported
\* that all git commands succeeded
CompletedWithGit == upc = "done" /\ git_success

\* C21: after update_videos_json completes with all git commands
\* succeeding, the videos.json in the pushed main branch carries a
\* latestCommitSha equal to the one recorded in the local videos.json.
C21_PushedShaIsLocalSha ==
    CompletedWithGit =>
        commits[remote_main].latestCommitSha = videos_json.latestCommitSha

\* C22: after update_videos_json completes with all git commands
\* succeeding, the commit named by the local manifest's latestCommitSha holds
\* a videos.json whose lastUpdated and cacheVersion are those of the local
\* videos.json.
C22_NamedCommitHoldsLocalData ==
    (CompletedWithGit /\ videos_json.latestCommitSha /= None) =>
        /\ commits[videos_json.latestCommitSha].lastUpdated
               = videos_json.lastUpdated
        /\ commits[videos_json.latestCommitSha].cacheVersion
               = videos_json.cacheVersion

====
